---- MODULE Spec2Model ----
(***************************************************************************)
(* A model of ssh-backchannel (src/ssh_backchannel/main.py): the four CLI  *)
(* commands configure, setup-remote, run and connect, each as a sequence   *)
(* of steps at the boundaries of its file-system calls and child           *)
(* processes.  One command runs per specification; the variables of the    *)
(* other commands stay at their idle values.                               *)
(***************************************************************************)
EXTENDS Integers, Sequences, FiniteSets, TLC

(* ------------------------------ bounds -------------------------------- *)
\* longest initial authorized_keys content, in characters
MaxFileLen == 4
\* invocations of `configure` in one behaviour
MaxRuns == 2
\* most lines of an initial Responder mapping file
MaxRecords == 2
\* most bytes on the connect handler's standard input
MaxInput == 3
\* bytes one read of shutil.copyfileobj returns (COPY_BUFSIZE, scaled down)
ChunkSize == 2

(* ----------------------------- characters ----------------------------- *)
NL == "\n"
SP == " "
\* one occurrence of the marker text "# backchannel-key" (main.py:15)
TAG == "T"
\* a character of a foreign entry: neither whitespace nor part of the marker
FOREIGN == "a"
\* the text `command="...",no-pty,no-port-forwarding,restrict <pub_key> `
ENTRYTEXT == "c"
\* authorized_keys files are "\n"-terminated text: with no "\r" in the file
\* the newline translation of text-mode open() is the identity.
FileChars == {FOREIGN, SP, TAG, NL}
Whitespace == {SP, NL}

SeqsUpTo(S, n) == UNION {[1..k -> S] : k \in 0..n}

(* permission bits of a regular file (the execute bits play no part) *)
PermBits == {"ur", "uw", "gr", "gw", "or", "ow"}
OwnerRW == {"ur", "uw"}
OwnerGroupOtherR == {"ur", "uw", "gr", "or"}
OwnerR == {"ur"}
\* process umasks tried: 022 and 077
Umasks == {{"gw", "ow"}, {"gr", "gw", "or", "ow"}}


\* an optional value: os.environ.get(...) or a variable that may be None
None == [set |-> FALSE, val |-> <<>>]
Some(v) == [set |-> TRUE, val |-> v]
\* Python truth of an optional string: None and "" are false
Falsy(o) == ~o.set \/ o.val = <<>>

(* ---- Responder mapping file (REMOTE_CONFIG_PATH, main.py:16) ---------- *)
COLON == ":"
HOST == <<"h">>
\* the Initiator's login name, and a second user name
USER_U == <<"u">>
USER_V == <<"v">>
\* the Responder's own login name (os.getlogin() on the Responder)
OWN_LOGIN == <<"m">>
MappingLines ==
    { HOST \o <<COLON>> \o USER_U \o <<NL>>,
      HOST \o <<COLON>> \o USER_V \o <<NL>>,
      HOST \o <<COLON, NL>>,
      HOST \o <<NL>>,
      HOST \o <<COLON>> \o OWN_LOGIN \o <<NL>>,
      HOST \o <<COLON>> \o USER_U \o <<COLON>> \o USER_V \o <<NL>>,
      <<SP>> \o HOST \o <<COLON>> \o USER_V \o <<SP, NL>> }

\* values of SSH_CLIENT: unset, empty, blank, and "<ip> <port> <port>"
PEER_IP == "i"
SshClientValues ==
    { None, Some(<<>>), Some(<<SP>>), Some(<<PEER_IP>>),
      Some(<<PEER_IP, SP, "p", SP, "q">>) }

\* values of SSH_ORIGINAL_COMMAND
DefaultPayload == "echo 'No command received'"
OrigCmdValues ==
    { [set |-> FALSE, val |-> ""], [set |-> TRUE, val |-> "xclip -i"],
      [set |-> TRUE, val |-> "true; rm -rf ~ && echo $(id) | sh"] }

VARIABLES
    cmd,          \* the subcommand main() dispatched to
    pc,           \* position inside the running command
    exitStatus,   \* -1 while running, else the process exit status
    out,          \* messages printed so far (stdout and stderr)
    calls,        \* external processes launched: [tool, arg, result]
    \* ---- configure ----
    configDir,    \* CONFIG_DIR exists
    keyExists,    \* PRIVATE_KEY (and PUBLIC_KEY) exist
    sshDir,       \* ~/.ssh exists
    authExists,   \* ~/.ssh/authorized_keys exists
    authMode,     \* its permission bits
    authContent,  \* its content, a sequence of characters
    lines,        \* configure's local `lines`
    new_lines,    \* configure's local `new_lines`
    invocations,  \* configure runs started
    okRuns,       \* configure runs that reached the final print
    auth0,        \* history: the file's content before the first run
    existed0,     \* history: whether it existed before the first run
    mode0,        \* history: its mode before the first run
    \* ---- Responder side: setup-remote writes, run reads ----
    confExists,   \* ~/.ssh_backchannel_config exists
    confMode600,  \* it has been restricted to 0600
    confLines,    \* its lines
    conf0,        \* history: its lines at the start
    rSshDir,      \* the Responder's ~/.ssh exists
    rKey,         \* ~/.ssh/id_backchannel: "absent", "copied", "restricted"
    \* ---- run ----
    sshClient,    \* the SSH_CLIENT environment variable
    confRead,     \* the mapping file has been opened
    current_ip,   \* run_callback's local
    target_user,  \* run_callback's local
    stdinTty,     \* sys.stdin.isatty()
    \* ---- connect ----
    origCmd,      \* the SSH_ORIGINAL_COMMAND environment variable
    payload,      \* handle_connect's local
    xauthSource,  \* where an X authority file can be found
    xauthority,   \* os.environ["XAUTHORITY"] after the bridging setup
    zenityInstalled,
    stdinData,    \* the bytes the SSH tunnel carries
    stdinRest,    \* those not yet read
    pending,      \* bytes written to proc.stdin and still in its buffer
    delivered,    \* bytes that reached the child's input pipe
    childStdin,   \* "none", "open", "closed": the handler's end of the pipe
    awaited,      \* proc.wait() has been called
    killed        \* proc.kill() has been called

comVars == <<cmd, pc, exitStatus, out, calls>>
cfgVars == <<configDir, keyExists, sshDir, authExists, authMode, authContent,
             lines, new_lines, invocations, okRuns, auth0, existed0, mode0>>
remVars == <<confExists, confMode600, confLines, conf0, rSshDir, rKey>>
runVars == <<sshClient, confRead, current_ip, target_user, stdinTty>>
conVars == <<origCmd, payload, xauthSource, xauthority, zenityInstalled,
             stdinData, stdinRest, pending, delivered, childStdin, awaited,
             killed>>
vars == <<comVars, cfgVars, remVars, runVars, conVars>>

Terminal == pc \in {"done", "failed"}
Call(tool, arg, result) == [tool |-> tool, arg |-> arg, result |-> result]

(* ------------------------- text helpers ------------------------------- *)
RECURSIVE SplitLines(_, _)
SplitLines(s, cur) ==
    IF s = <<>> THEN (IF cur = <<>> THEN <<>> ELSE <<cur>>)
    ELSE IF Head(s) = NL
         THEN <<Append(cur, NL)>> \o SplitLines(Tail(s), <<>>)
         ELSE SplitLines(Tail(s), Append(cur, Head(s)))

\* f.readlines(): the lines of the text, each keeping its "\n"; a last line
\* without "\n" is returned as it is
Readlines(s) == SplitLines(s, <<>>)

RECURSIVE LStrip(_)
LStrip(s) == IF s # <<>> /\ Head(s) \in Whitespace THEN LStrip(Tail(s)) ELSE s

RECURSIVE RStrip(_)
RStrip(s) ==
    IF s # <<>> /\ s[Len(s)] \in Whitespace
    THEN RStrip(SubSeq(s, 1, Len(s) - 1)) ELSE s

\* str.strip()
Strip(s) == RStrip(LStrip(s))

\* `TAG in l`
TagIn(l) == \E i \in DOMAIN l : l[i] = TAG

\* the condition of the comprehension on main.py:51
KeepLine(l) == ~TagIn(l) /\ Strip(l) # <<>>

\* entry, main.py:44
Entry == <<ENTRYTEXT, SP, TAG, NL>>

NewLines(ls) == Append(SelectSeq(ls, KeepLine), Entry)

RECURSIVE Concat(_)
\* f.writelines(ls): the lines written one after another, nothing added
Concat(ls) == IF ls = <<>> THEN <<>> ELSE Head(ls) \o Concat(Tail(ls))

(* ------------------------- common outcomes ---------------------------- *)
\* an uncaught exception: the traceback goes to stderr, the status is 1
Crash(msg) ==
    /\ pc' = "failed"
    /\ exitStatus' = 1
    /\ out' = Append(out, msg)

\* ensure_keys(), main.py:18-25; `next` is where its caller goes on
EnsureKeys(next) ==
    /\ configDir' = TRUE
    /\ IF keyExists
       THEN /\ pc' = next
            /\ UNCHANGED <<keyExists, exitStatus, out, calls>>
       ELSE \E keygen \in {"0", "1", "missing"} :
              /\ calls' = Append(calls, Call("ssh-keygen", "", keygen))
              /\ IF keygen = "0"
                 THEN /\ keyExists' = TRUE
                      /\ pc' = next
                      /\ UNCHANGED <<exitStatus, out>>
                 ELSE /\ Crash(IF keygen = "1" THEN "CalledProcessError"
                                               ELSE "FileNotFoundError")
                      /\ UNCHANGED keyExists

(* ----------------------------- configure ------------------------------ *)
\* main.py:28
CfgEnsureKeys ==
    /\ cmd = "configure" /\ pc = "ensure_keys"
    /\ EnsureKeys("which")
    /\ UNCHANGED <<cmd, sshDir, authExists, authMode, authContent, lines,
                   new_lines, invocations, okRuns, auth0, existed0, mode0>>
    /\ UNCHANGED <<remVars, runVars, conVars>>

\* reading the public key and locating the connect handler: main.py:31-42
CfgResolveConnect ==
    /\ cmd = "configure" /\ pc = "which"
    /\ \E where \in {"path", "sibling", "none"} :
         IF where = "none"
         THEN /\ pc' = "failed"
              /\ exitStatus' = 1
              /\ out' = Append(out, "[-] Error: ssh-backchannel-connect not found")
         ELSE /\ pc' = "read"
              /\ UNCHANGED <<exitStatus, out>>
    /\ UNCHANGED <<cmd, calls, cfgVars, remVars, runVars, conVars>>

\* main.py:46-49
CfgReadAuth ==
    /\ cmd = "configure" /\ pc = "read"
    /\ IF authExists
       THEN IF "ur" \in authMode
            THEN /\ lines' = Readlines(authContent)
                 /\ pc' = "filter"
                 /\ UNCHANGED <<exitStatus, out>>
            ELSE /\ Crash("PermissionError")
                 /\ UNCHANGED lines
       ELSE /\ lines' = <<>>
            /\ pc' = "filter"
            /\ UNCHANGED <<exitStatus, out>>
    /\ UNCHANGED <<cmd, calls, configDir, keyExists, sshDir, authExists,
                   authMode, authContent, new_lines, invocations, okRuns,
                   auth0, existed0, mode0>>
    /\ UNCHANGED <<remVars, runVars, conVars>>

\* main.py:51-54
CfgFilter ==
    /\ cmd = "configure" /\ pc = "filter"
    /\ new_lines' = NewLines(lines)
    /\ sshDir' = TRUE
    /\ pc' = "open"
    /\ UNCHANGED <<cmd, exitStatus, out, calls, configDir, keyExists,
                   authExists, authMode, authContent, lines, invocations,
                   okRuns, auth0, existed0, mode0>>
    /\ UNCHANGED <<remVars, runVars, conVars>>

\* the mode open(auth_path, "w") gives a file it creates: 0666 & ~umask
CreateMode(umask) == PermBits \ umask

\* open(auth_path, "w"), main.py:55: truncates an existing file and keeps
\* its mode, creates a missing one under the process umask
CfgOpen ==
    /\ cmd = "configure" /\ pc = "open"
    /\ IF authExists
       THEN IF "uw" \in authMode
            THEN /\ authContent' = <<>>
                 /\ pc' = "write"
                 /\ UNCHANGED <<authExists, authMode, exitStatus, out>>
            ELSE /\ Crash("PermissionError")
                 /\ UNCHANGED <<authExists, authMode, authContent>>
       ELSE \E umask \in Umasks :
              /\ authExists' = TRUE
              /\ authMode' = CreateMode(umask)
              /\ authContent' = <<>>
              /\ pc' = "write"
              /\ UNCHANGED <<exitStatus, out>>
    /\ UNCHANGED <<cmd, calls, configDir, keyExists, sshDir, lines,
                   new_lines, invocations, okRuns, auth0, existed0, mode0>>
    /\ UNCHANGED <<remVars, runVars, conVars>>

\* f.writelines(new_lines) and the close at the end of the with block:
\* main.py:56
CfgWritelines ==
    /\ cmd = "configure" /\ pc = "write"
    /\ authContent' = Concat(new_lines)
    /\ pc' = "chmod"
    /\ UNCHANGED <<cmd, exitStatus, out, calls, configDir, keyExists, sshDir,
                   authExists, authMode, lines, new_lines, invocations,
                   okRuns, auth0, existed0, mode0>>
    /\ UNCHANGED <<remVars, runVars, conVars>>

\* a chmod that leaves the mode as it finds it
ChmodSkipped == authMode

\* the mode auth_path.chmod(0o600) sets, main.py:57
ChmodAuth == OwnerRW

\* main.py:57-59
CfgChmod ==
    /\ cmd = "configure" /\ pc = "chmod"
    /\ authMode' = ChmodAuth
    /\ out' = Append(out, "[*] Local access configured")
    /\ pc' = "done"
    /\ exitStatus' = 0
    /\ okRuns' = okRuns + 1
    /\ lines' = <<>>
    /\ new_lines' = <<>>
    /\ UNCHANGED <<cmd, calls, configDir, keyExists, sshDir, authExists,
                   authContent, invocations, auth0, existed0, mode0>>
    /\ UNCHANGED <<remVars, runVars, conVars>>

\* the user runs `configure` again: a new process
CfgRerun ==
    /\ cmd = "configure" /\ Terminal
    /\ invocations < MaxRuns
    /\ invocations' = invocations + 1
    /\ pc' = "ensure_keys"
    /\ exitStatus' = -1
    /\ out' = <<>>
    /\ calls' = <<>>
    /\ lines' = <<>>
    /\ new_lines' = <<>>
    /\ UNCHANGED <<cmd, configDir, keyExists, sshDir, authExists, authMode,
                   authContent, okRuns, auth0, existed0, mode0>>
    /\ UNCHANGED <<remVars, runVars, conVars>>

(* -------------------- idle values of each command --------------------- *)
IdleCommon(c, start) ==
    /\ cmd = c
    /\ pc = start
    /\ exitStatus = -1
    /\ out = <<>>
    /\ calls = <<>>

IdleConfigure ==
    /\ sshDir = TRUE
    /\ authExists = FALSE
    /\ authMode = OwnerRW
    /\ authContent = <<>>
    /\ lines = <<>>
    /\ new_lines = <<>>
    /\ invocations = 0
    /\ okRuns = 0
    /\ auth0 = <<>>
    /\ existed0 = FALSE
    /\ mode0 = OwnerRW

IdleRemote ==
    /\ confExists = FALSE
    /\ confMode600 = FALSE
    /\ confLines = <<>>
    /\ conf0 = <<>>
    /\ rSshDir = FALSE
    /\ rKey = "absent"

IdleRun ==
    /\ sshClient = None
    /\ confRead = FALSE
    /\ current_ip = <<>>
    /\ target_user = None
    /\ stdinTty = TRUE

IdleConnect ==
    /\ origCmd = [set |-> FALSE, val |-> ""]
    /\ payload = ""
    /\ xauthSource = "none"
    /\ xauthority = "unset"
    /\ zenityInstalled = FALSE
    /\ stdinData = <<>>
    /\ stdinRest = <<>>
    /\ pending = <<>>
    /\ delivered = <<>>
    /\ childStdin = "none"
    /\ awaited = FALSE
    /\ killed = FALSE

InitConfigure ==
    /\ IdleCommon("configure", "ensure_keys")
    /\ keyExists \in BOOLEAN
    /\ configDir \in BOOLEAN
    /\ keyExists => configDir
    /\ sshDir \in BOOLEAN
    /\ authExists \in BOOLEAN
    /\ authExists => sshDir
    /\ authMode \in {OwnerRW, OwnerGroupOtherR, OwnerR}
    /\ authContent \in SeqsUpTo(FileChars, MaxFileLen)
    /\ ~authExists => (authContent = <<>> /\ authMode = OwnerRW)
    /\ lines = <<>>
    /\ new_lines = <<>>
    /\ invocations = 1
    /\ okRuns = 0
    /\ auth0 = authContent
    /\ existed0 = authExists
    /\ mode0 = authMode
    /\ IdleRemote /\ IdleRun /\ IdleConnect

NextConfigure ==
    \/ CfgEnsureKeys
    \/ CfgResolveConnect
    \/ CfgReadAuth
    \/ CfgFilter
    \/ CfgOpen
    \/ CfgWritelines
    \/ CfgChmod
    \/ CfgRerun

SpecConfigure == InitConfigure /\ [][NextConfigure]_vars

(* ----------------------- claims about configure ----------------------- *)
\* a line without its terminator
Chomp(l) == IF l # <<>> /\ l[Len(l)] = NL THEN SubSeq(l, 1, Len(l) - 1) ELSE l

\* the lines of a file's content, terminators removed
LinesOf(s) == [i \in DOMAIN Readlines(s) |-> Chomp(Readlines(s)[i])]

TaggedCount(s) == Cardinality({i \in DOMAIN LinesOf(s) : TagIn(LinesOf(s)[i])})

RECURSIVE IsSubseq(_, _)
\* the elements of a occur in b, in a's order
IsSubseq(a, b) ==
    IF a = <<>> THEN TRUE
    ELSE IF b = <<>> THEN FALSE
    ELSE IF Head(a) = Head(b) THEN IsSubseq(Tail(a), Tail(b))
    ELSE IsSubseq(a, Tail(b))

\* the non-tagged, non-blank lines of a content
ForeignLines(s) == SelectSeq(LinesOf(s), KeepLine)

\* C1: after any number n >= 1 of successful configure runs, whatever the
\* file held before the first one, the file holds exactly one line with the
\* tag marker, and every non-tagged, non-blank line it held before the
\* first run is still a line of it, unchanged and in the same order.
C1_OneTaggedForeignKept ==
    (cmd = "configure" /\ pc = "done") =>
        /\ TaggedCount(authContent) = 1
        /\ IsSubseq(ForeignLines(auth0), LinesOf(authContent))

GroupOtherRead == {"gr", "or"}

\* C5: after a successful configure run the file exists and its mode is
\* exactly 0600, whatever it was, or whether it existed, before.
C5_ModeOwnerOnlyAfterConfigure ==
    (cmd = "configure" /\ pc = "done") =>
        (authExists /\ authMode = OwnerRW)

C5_Witness ==
    /\ cmd = "configure" /\ pc = "done"
    /\ existed0 /\ mode0 = OwnerGroupOtherR
    /\ authMode = OwnerRW

\* C10: at every point of a configure run, aborted runs and the interval
\* between the rewrite and the chmod included, the file is not missing
\* after having existed and is not readable by group or others.  Stated
\* for the runs that start from a file that is absent or already private,
\* so that only what configure itself does to the file can break it.
C10_NeverMissingNeverReadable ==
    cmd = "configure" =>
        /\ existed0 => authExists
        /\ (~existed0 \/ mode0 \cap GroupOtherRead = {}) =>
               (authExists => authMode \cap GroupOtherRead = {})

(* ---------------------------- setup-remote ---------------------------- *)
\* mapping_line, main.py:69
MappingLine(host, user) == host \o <<COLON>> \o user \o <<NL>>

\* the five remote steps in the order of main.py:72-76
RemoteSteps ==
    << "touch-chmod-config", "append-mapping", "mkdir-ssh", "scp-key",
       "chmod-key" >>

StepTool(step) == IF step = "scp-key" THEN "scp" ELSE "ssh"

\* main.py:62
SrEnsureKeys ==
    /\ cmd = "setup-remote" /\ pc = "ensure_keys"
    /\ EnsureKeys("identify")
    /\ UNCHANGED <<cmd, sshDir, authExists, authMode, authContent, lines,
                   new_lines, invocations, okRuns, auth0, existed0, mode0>>
    /\ UNCHANGED <<remVars, runVars, conVars>>

\* socket.gethostname(), os.getlogin() (OSError without a controlling
\* terminal) and the read of the public key: main.py:63-69
SrIdentify ==
    /\ cmd = "setup-remote" /\ pc = "identify"
    /\ \E login \in {"ok", "OSError"} :
         IF login = "ok"
         THEN /\ pc' = RemoteSteps[1]
              /\ UNCHANGED <<exitStatus, out>>
         ELSE Crash("OSError")
    /\ UNCHANGED <<cmd, calls, cfgVars, remVars, runVars, conVars>>

\* where setup_remote goes after a step whose subprocess.run returned
\* normally although the command failed
StepIgnoresFailure(k) ==
    IF k < Len(RemoteSteps) THEN RemoteSteps[k + 1] ELSE "success"

\* where setup_remote goes when step k exits non-zero: check=True raises
\* CalledProcessError, caught on main.py:78
StepFailedPc(k) == "caught"

\* one subprocess.run(..., check=True) of main.py:72-76; `effect` is what
\* the remote command does when it succeeds
RemoteStep(k, effect) ==
    /\ cmd = "setup-remote" /\ pc = RemoteSteps[k]
    /\ \E result \in {"0", "255", "missing"} :
         /\ calls' = Append(calls, Call(StepTool(RemoteSteps[k]),
                                        RemoteSteps[k], result))
         /\ IF result = "0"
            THEN /\ effect
                 /\ pc' = IF k < Len(RemoteSteps) THEN RemoteSteps[k + 1]
                                                  ELSE "success"
                 /\ UNCHANGED <<exitStatus, out>>
            ELSE IF result = "255"
            THEN /\ pc' = StepFailedPc(k)
                 /\ UNCHANGED <<exitStatus, out, remVars>>
            ELSE \* the ssh or scp binary is missing: FileNotFoundError is
                 \* not a CalledProcessError and is not caught
                 /\ Crash("FileNotFoundError")
                 /\ UNCHANGED remVars
    /\ UNCHANGED <<cmd, cfgVars, runVars, conVars>>

\* main.py:72
SrTouchConfig ==
    RemoteStep(1, /\ confExists' = TRUE
                  /\ confMode600' = TRUE
                  /\ UNCHANGED <<confLines, conf0, rSshDir, rKey>>)

\* main.py:73
SrAppendMapping ==
    RemoteStep(2, /\ confExists' = TRUE
                  /\ confLines' = Append(confLines, MappingLine(HOST, USER_U))
                  /\ UNCHANGED <<confMode600, conf0, rSshDir, rKey>>)

\* main.py:74
SrMkdirSsh ==
    RemoteStep(3, /\ rSshDir' = TRUE
                  /\ UNCHANGED <<confExists, confMode600, confLines, conf0,
                                 rKey>>)

\* main.py:75; scp into a missing directory fails, but step 3 made it
SrScpKey ==
    RemoteStep(4, /\ rKey' = "copied"
                  /\ UNCHANGED <<confExists, confMode600, confLines, conf0,
                                 rSshDir>>)

\* main.py:76
SrChmodKey ==
    RemoteStep(5, /\ rKey' = "restricted"
                  /\ UNCHANGED <<confExists, confMode600, confLines, conf0,
                                 rSshDir>>)

\* main.py:77
SrSuccess ==
    /\ cmd = "setup-remote" /\ pc = "success"
    /\ out' = Append(out, "[+] Success!")
    /\ pc' = "done"
    /\ exitStatus' = 0
    /\ UNCHANGED <<cmd, calls, cfgVars, remVars, runVars, conVars>>

\* main.py:78-80
SrCaught ==
    /\ cmd = "setup-remote" /\ pc = "caught"
    /\ out' = Append(out, "[-] Error: CalledProcessError")
    /\ pc' = "failed"
    /\ exitStatus' = 1
    /\ UNCHANGED <<cmd, calls, cfgVars, remVars, runVars, conVars>>

\* the mapping files a Responder may hold
MappingFiles == SeqsUpTo(MappingLines, MaxRecords)

InitSetupRemote ==
    /\ IdleCommon("setup-remote", "ensure_keys")
    /\ keyExists \in BOOLEAN
    /\ configDir \in BOOLEAN
    /\ keyExists => configDir
    /\ IdleConfigure
    /\ confExists \in BOOLEAN
    /\ confMode600 \in BOOLEAN
    /\ confLines \in MappingFiles
    /\ ~confExists => (confLines = <<>> /\ ~confMode600)
    /\ conf0 = confLines
    /\ rSshDir \in BOOLEAN
    /\ rKey \in {"absent", "restricted"}
    /\ rKey # "absent" => rSshDir
    /\ IdleRun /\ IdleConnect

NextSetupRemote ==
    \/ SrEnsureKeys
    \/ SrIdentify
    \/ SrTouchConfig
    \/ SrAppendMapping
    \/ SrMkdirSsh
    \/ SrScpKey
    \/ SrChmodKey
    \/ SrSuccess
    \/ SrCaught

SpecSetupRemote == InitSetupRemote /\ [][NextSetupRemote]_vars

(* ---------------------- claims about setup-remote --------------------- *)
\* the remote steps launched so far, without the key generation
StepCalls == SelectSeq(calls, LAMBDA c : c.tool # "ssh-keygen")

StepNames == [i \in DOMAIN StepCalls |-> StepCalls[i].arg]

\* C9: the remote steps run in the order touch/chmod config, append mapping,
\* mkdir ~/.ssh, scp key, chmod key; a failed step is the last one run, the
\* error is then reported and the exit status non-zero; the success message
\* is printed only after five successful steps; what the steps before a
\* failed one did on the Responder stays done.
C9_OrderedShortCircuit ==
    cmd = "setup-remote" =>
        /\ Len(StepNames) <= Len(RemoteSteps)
        /\ StepNames = SubSeq(RemoteSteps, 1, Len(StepNames))
        /\ \A i \in DOMAIN StepCalls :
             StepCalls[i].result # "0" =>
                 /\ i = Len(StepCalls)
                 /\ pc \in {"caught", "failed"}
                 /\ Terminal => (exitStatus = 1 /\ out # <<>>
                                 /\ "[+] Success!" \notin {out[j] : j \in DOMAIN out})
        /\ "[+] Success!" \in {out[j] : j \in DOMAIN out} =>
             /\ Len(StepCalls) = Len(RemoteSteps)
             /\ \A i \in DOMAIN StepCalls : StepCalls[i].result = "0"
        /\ (Len(StepCalls) >= 3 /\ StepCalls[2].result = "0") =>
             (confExists /\ confLines = Append(conf0, MappingLine(HOST, USER_U)))

\* the scp step failed after three successful steps; the mapping record
\* appended by step 2 is still there
C9_Witness ==
    /\ cmd = "setup-remote" /\ pc = "failed"
    /\ Len(StepCalls) = 4 /\ StepCalls[4].result = "255"
    /\ confLines = Append(conf0, MappingLine(HOST, USER_U))
    /\ rKey = "absent"

(* -------------------------------- run --------------------------------- *)
\* a sys.exit(<message>) that ends the process with status 0
SysExitMessageSilent(msg) == [status |-> 0, stderr |-> msg]

\* sys.exit(<message>): the message goes to stderr and the status is 1
SysExitMessage(msg) == [status |-> 1, stderr |-> msg]

RECURSIVE FirstToken(_)
\* the characters of s up to its first whitespace
FirstToken(s) ==
    IF s = <<>> \/ Head(s) \in Whitespace THEN <<>>
    ELSE <<Head(s)>> \o FirstToken(Tail(s))

\* main.py:83-87
RcCheckEnv ==
    /\ cmd = "run" /\ pc = "check_env"
    /\ IF Falsy(sshClient)
       THEN LET e == SysExitMessage("[-] Error: No SSH_CLIENT detected.")
            IN  /\ pc' = "failed"
                /\ exitStatus' = e.status
                /\ out' = Append(out, e.stderr)
                /\ UNCHANGED current_ip
       ELSE IF Strip(sshClient.val) = <<>>
            THEN \* ssh_client.split() is empty: IndexError
                 /\ Crash("IndexError")
                 /\ UNCHANGED current_ip
            ELSE /\ current_ip' = FirstToken(LStrip(sshClient.val))
                 /\ pc' = "read_mapping"
                 /\ UNCHANGED <<exitStatus, out>>
    /\ UNCHANGED <<cmd, calls, cfgVars, remVars, conVars>>
    /\ UNCHANGED <<sshClient, confRead, target_user, stdinTty>>

HasColon(l) == \E i \in DOMAIN l : l[i] = COLON

\* the part after the first ":" of the stripped line:
\* `_, user = line.strip().split(":", 1)`
UserField(l) ==
    LET s == Strip(l)
        i == CHOOSE j \in DOMAIN s :
                 s[j] = COLON /\ \A k \in 1..(j - 1) : s[k] # COLON
    IN  SubSeq(s, i + 1, Len(s))

RECURSIVE FirstUser(_, _)
\* a loop that keeps the first record's user
FirstUser(ls, acc) ==
    IF ls = <<>> THEN acc
    ELSE IF HasColon(Head(ls)) /\ ~acc.set
         THEN FirstUser(Tail(ls), Some(UserField(Head(ls))))
         ELSE FirstUser(Tail(ls), acc)

RECURSIVE LastUser(_, _)
\* the loop of main.py:93-96: every line with a ":" overwrites target_user
LastUser(ls, acc) ==
    IF ls = <<>> THEN acc
    ELSE IF HasColon(Head(ls))
         THEN LastUser(Tail(ls), Some(UserField(Head(ls))))
         ELSE LastUser(Tail(ls), acc)

\* main.py:89-96
RcReadMapping ==
    /\ cmd = "run" /\ pc = "read_mapping"
    /\ IF confExists
       THEN /\ confRead' = TRUE
            /\ target_user' = LastUser(confLines, None)
       ELSE /\ target_user' = None
            /\ UNCHANGED confRead
    /\ pc' = "resolve_user"
    /\ UNCHANGED <<cmd, exitStatus, out, calls, cfgVars, remVars, conVars>>
    /\ UNCHANGED <<sshClient, current_ip, stdinTty>>

\* `target_user = target_user or os.getlogin()`, main.py:98; os.getlogin()
\* raises OSError in a session without a controlling terminal
RcResolveUser ==
    /\ cmd = "run" /\ pc = "resolve_user"
    /\ IF Falsy(target_user)
       THEN \E login \in {"ok", "OSError"} :
              IF login = "ok"
              THEN /\ target_user' = Some(OWN_LOGIN)
                   /\ pc' = "ssh"
                   /\ UNCHANGED <<exitStatus, out>>
              ELSE /\ Crash("OSError")
                   /\ UNCHANGED target_user
       ELSE /\ pc' = "ssh"
            /\ UNCHANGED <<target_user, exitStatus, out>>
    /\ UNCHANGED <<cmd, calls, cfgVars, remVars, conVars>>
    /\ UNCHANGED <<sshClient, confRead, current_ip, stdinTty>>

\* subprocess.run(ssh_cmd, ...) without check, its result dropped:
\* main.py:101-107
RcSsh ==
    /\ cmd = "run" /\ pc = "ssh"
    /\ \E result \in {"0", "1", "255", "missing"} :
         /\ calls' = Append(calls,
                Call("ssh", [user |-> target_user.val, host |-> current_ip,
                             stdin |-> IF stdinTty THEN "tty" ELSE "pipe"],
                     result))
         /\ IF result = "missing"
            THEN Crash("FileNotFoundError")
            ELSE /\ pc' = "done"
                 /\ exitStatus' = 0
                 /\ UNCHANGED out
    /\ UNCHANGED <<cmd, cfgVars, remVars, runVars, conVars>>

InitRun ==
    /\ IdleCommon("run", "check_env")
    /\ configDir = FALSE /\ keyExists = FALSE
    /\ IdleConfigure
    /\ confExists \in BOOLEAN
    /\ confMode600 = confExists
    /\ confLines \in MappingFiles
    /\ ~confExists => confLines = <<>>
    /\ conf0 = confLines
    /\ rSshDir = TRUE
    /\ rKey \in {"absent", "restricted"}
    /\ sshClient \in SshClientValues
    /\ confRead = FALSE
    /\ current_ip = <<>>
    /\ target_user = None
    /\ stdinTty \in BOOLEAN
    /\ IdleConnect

NextRun ==
    \/ RcCheckEnv
    \/ RcReadMapping
    \/ RcResolveUser
    \/ RcSsh

SpecRun == InitRun /\ [][NextRun]_vars

(* -------------------------- claims about run -------------------------- *)
\* C4: without SSH_CLIENT (unset or empty) run_callback exits non-zero,
\* launches no ssh and reads no mapping record.
C4_NoClientNoConnection ==
    (cmd = "run" /\ Falsy(sshClient) /\ pc # "check_env") =>
        /\ pc = "failed"
        /\ exitStatus # 0
        /\ calls = <<>>
        /\ ~confRead

C4_Witness ==
    /\ cmd = "run" /\ sshClient = Some(<<>>) /\ confExists
    /\ pc = "failed" /\ exitStatus = 1 /\ calls = <<>>

\* the mapping records of the file: its lines with a ":"
Records == SelectSeq(confLines, HasColon)

DialUser == calls[Len(calls)].arg.user

\* C7 as claimed: the dial-back user is the user of the last mapping record
\* whenever the file has a record, and the fallback to the Responder's own
\* login name is taken exactly when it has none.
C7_UserFromLastRecord ==
    (cmd = "run" /\ calls # <<>>) =>
        DialUser = IF Records # <<>> THEN UserField(Records[Len(Records)])
                                     ELSE OWN_LOGIN

\* C7 as the code has it: the user of the last mapping record when that
\* user is not empty; the fallback to the Responder's own login name is
\* taken exactly when there is no record or the last record's user is empty.
C7_UserFromLastRecordUnlessEmpty ==
    (cmd = "run" /\ calls # <<>>) =>
        LET last == IF Records = <<>> THEN <<>>
                    ELSE UserField(Records[Len(Records)])
        IN  DialUser = IF last # <<>> THEN last ELSE OWN_LOGIN

\* two records with different users: the second one is dialled
C7_Witness ==
    /\ cmd = "run" /\ calls # <<>>
    /\ Len(Records) = 2
    /\ UserField(Records[1]) = USER_U /\ UserField(Records[2]) = USER_V
    /\ DialUser = USER_V

\* C6: every external process has its exit status checked and propagated:
\* the program's exit status is 0 only if every tool it launched succeeded
\* (the confirmation dialog may also have been answered "no" or timed out).
C6_ExitStatusPropagated ==
    (Terminal /\ exitStatus = 0) =>
        \A i \in DOMAIN calls :
            \/ calls[i].result = "0"
            \/ calls[i].tool = "zenity" /\ calls[i].result \in {"1", "5"}

(* ------------------------------ connect ------------------------------- *)
Bytes == {0, 1}

Min(a, b) == IF a < b THEN a ELSE b

\* payload and the X11 bridging setup: main.py:111-124
HcReadEnv ==
    /\ cmd = "connect" /\ pc = "read_env"
    /\ payload' = IF origCmd.set THEN origCmd.val ELSE DefaultPayload
    /\ xauthority' = IF xauthSource = "none" THEN "unset" ELSE xauthSource
    /\ pc' = "which"
    /\ UNCHANGED <<cmd, exitStatus, out, calls, cfgVars, remVars, runVars>>
    /\ UNCHANGED <<origCmd, xauthSource, zenityInstalled, stdinData,
                   stdinRest, pending, delivered, childStdin, awaited,
                   killed>>

\* a check that takes the dialog for available without looking
WhichZenityAssumed == TRUE

\* shutil.which("zenity"), main.py:127
WhichZenity == zenityInstalled

\* main.py:127, 150-151
HcWhich ==
    /\ cmd = "connect" /\ pc = "which"
    /\ IF WhichZenity
       THEN /\ pc' = "dialog"
            /\ UNCHANGED <<exitStatus, out>>
       ELSE /\ out' = Append(out, "[!] Error: Zenity not found. Closing.")
            /\ pc' = "done"
            /\ exitStatus' = 0
    /\ UNCHANGED <<cmd, calls, cfgVars, remVars, runVars, conVars>>

\* a test that runs the command unless the answer was "no"
ApprovedUnlessNo(returncode) == returncode # "1"

\* `res.returncode == 0`, main.py:134
Approved(returncode) == returncode = "0"

\* the dialog, main.py:128-134, 148-149: zenity exits 0 on "yes", 1 on
\* "no", 5 on timeout, and with another status when it cannot run (no
\* display)
HcDialog ==
    /\ cmd = "connect" /\ pc = "dialog"
    /\ IF zenityInstalled
       THEN \E returncode \in {"0", "1", "5", "255"} :
              /\ calls' = Append(calls, Call("zenity", payload, returncode))
              /\ IF Approved(returncode)
                 THEN /\ pc' = "spawn"
                      /\ UNCHANGED <<exitStatus, out>>
                 ELSE /\ out' = Append(out, "[*] Action denied by user.")
                      /\ pc' = "done"
                      /\ exitStatus' = 0
       ELSE /\ calls' = Append(calls, Call("zenity", payload, "missing"))
            /\ Crash("FileNotFoundError")
    /\ UNCHANGED <<cmd, cfgVars, remVars, runVars, conVars>>

\* subprocess.Popen(payload, shell=True, stdin=PIPE), main.py:136-138
HcSpawn ==
    /\ cmd = "connect" /\ pc = "spawn"
    /\ calls' = Append(calls, Call("sh", payload, "running"))
    /\ childStdin' = "open"
    /\ pc' = IF stdinTty THEN "close" ELSE "copy"
    /\ UNCHANGED <<cmd, exitStatus, out, cfgVars, remVars, runVars>>
    /\ UNCHANGED <<origCmd, payload, xauthSource, xauthority,
                   zenityInstalled, stdinData, stdinRest, pending,
                   delivered, awaited, killed>>

\* a copy loop that goes straight on to proc.wait()
AfterCopyWait == "wait"

\* where the handler goes when the copy is over: proc.stdin.close(),
\* main.py:143
AfterCopy == "close"

\* one round of shutil.copyfileobj(sys.stdin.buffer, proc.stdin),
\* main.py:140: a read of up to ChunkSize bytes and a write of them to
\* proc.stdin, which buffers them or flushes them into the pipe; a flush
\* into a pipe the child no longer reads raises BrokenPipeError
HcCopyChunk ==
    /\ cmd = "connect" /\ pc = "copy"
    /\ LET n == Min(ChunkSize, Len(stdinRest))
           chunk == SubSeq(stdinRest, 1, n)
       IN  IF n = 0
           THEN /\ pc' = AfterCopy
                /\ UNCHANGED <<stdinRest, pending, delivered>>
           ELSE /\ stdinRest' = SubSeq(stdinRest, n + 1, Len(stdinRest))
                /\ \E write \in {"buffered", "flushed", "EPIPE"} :
                     IF write = "buffered"
                     THEN /\ pending' = pending \o chunk
                          /\ UNCHANGED <<delivered, pc>>
                     ELSE IF write = "flushed"
                     THEN /\ delivered' = delivered \o pending \o chunk
                          /\ pending' = <<>>
                          /\ UNCHANGED pc
                     ELSE /\ pc' = "except"
                          /\ UNCHANGED <<pending, delivered>>
    /\ UNCHANGED <<cmd, exitStatus, out, calls, cfgVars, remVars, runVars>>
    /\ UNCHANGED <<origCmd, payload, xauthSource, xauthority,
                   zenityInstalled, stdinData, childStdin, awaited, killed>>

\* proc.stdin.close(), main.py:143: flushes what is buffered and closes the
\* pipe; the pipe is closed also when the flush raises
HcClose ==
    /\ cmd = "connect" /\ pc = "close"
    /\ childStdin' = "closed"
    /\ \E flush \in {"ok", "EPIPE"} :
         IF flush = "ok" \/ pending = <<>>
         THEN /\ delivered' = delivered \o pending
              /\ pending' = <<>>
              /\ pc' = "wait"
         ELSE /\ pending' = <<>>
              /\ pc' = "except"
              /\ UNCHANGED delivered
    /\ UNCHANGED <<cmd, exitStatus, out, calls, cfgVars, remVars, runVars>>
    /\ UNCHANGED <<origCmd, payload, xauthSource, xauthority,
                   zenityInstalled, stdinData, stdinRest, awaited, killed>>

SetLastResult(cs, result) == [cs EXCEPT ![Len(cs)].result = result]

\* proc.wait(), main.py:144; the return code is dropped
HcWait ==
    /\ cmd = "connect" /\ pc = "wait"
    /\ awaited' = TRUE
    /\ \E returncode \in {"0", "1"} :
         calls' = SetLastResult(calls, returncode)
    /\ pc' = "done"
    /\ exitStatus' = 0
    /\ UNCHANGED <<cmd, out, cfgVars, remVars, runVars>>
    /\ UNCHANGED <<origCmd, payload, xauthSource, xauthority,
                   zenityInstalled, stdinData, stdinRest, pending,
                   delivered, childStdin, killed>>

\* the except branch, main.py:145-147
HcExcept ==
    /\ cmd = "connect" /\ pc = "except"
    /\ out' = Append(out, "[*] Command Error: BrokenPipeError")
    /\ killed' = TRUE
    /\ calls' = SetLastResult(calls, "killed")
    /\ pc' = "done"
    /\ exitStatus' = 0
    /\ UNCHANGED <<cmd, cfgVars, remVars, runVars>>
    /\ UNCHANGED <<origCmd, payload, xauthSource, xauthority,
                   zenityInstalled, stdinData, stdinRest, pending,
                   delivered, childStdin, awaited>>

InitConnect ==
    /\ IdleCommon("connect", "read_env")
    /\ configDir = TRUE /\ keyExists = TRUE
    /\ IdleConfigure /\ IdleRemote
    /\ sshClient = None
    /\ confRead = FALSE
    /\ current_ip = <<>>
    /\ target_user = None
    /\ stdinTty \in BOOLEAN
    /\ origCmd \in OrigCmdValues
    /\ payload = ""
    /\ xauthSource \in {"env", "home", "gdm", "none"}
    /\ xauthority = IF xauthSource = "env" THEN "env" ELSE "unset"
    /\ zenityInstalled \in BOOLEAN
    /\ stdinData \in SeqsUpTo(Bytes, MaxInput)
    /\ stdinTty => stdinData = <<>>
    /\ stdinRest = stdinData
    /\ pending = <<>>
    /\ delivered = <<>>
    /\ childStdin = "none"
    /\ awaited = FALSE
    /\ killed = FALSE

NextConnect ==
    \/ HcReadEnv
    \/ HcWhich
    \/ HcDialog
    \/ HcSpawn
    \/ HcCopyChunk
    \/ HcClose
    \/ HcWait
    \/ HcExcept

SpecConnect == InitConnect /\ [][NextConnect]_vars

(* ------------------------ claims about connect ------------------------ *)
ShellCalls == SelectSeq(calls, LAMBDA c : c.tool = "sh")
DialogCalls == SelectSeq(calls, LAMBDA c : c.tool = "zenity")

\* C2: a shell running the requested command exists only if the dialog was
\* run and exited with status 0; after any other dialog outcome no such
\* process is ever spawned.
C2_SpawnOnlyAfterYes ==
    cmd = "connect" =>
        /\ ShellCalls # <<>> =>
             (Len(DialogCalls) = 1 /\ DialogCalls[1].result = "0")
        /\ (DialogCalls # <<>> /\ DialogCalls[1].result # "0") =>
             (ShellCalls = <<>> /\ childStdin = "none")

\* the command with shell metacharacters was approved and spawned
C2_Witness ==
    /\ cmd = "connect"
    /\ payload = "true; rm -rf ~ && echo $(id) | sh"
    /\ Len(ShellCalls) = 1 /\ ShellCalls[1].arg = payload
    /\ DialogCalls[1].result = "0"

\* C3: without the confirmation tool the handler launches nothing (no
\* dialog, no command), prints the failure and ends without reading its
\* input or waiting for a child.
C3_NoZenityNoAction ==
    (cmd = "connect" /\ ~zenityInstalled /\ pc \notin {"read_env", "which"}) =>
        /\ pc = "done"
        /\ calls = <<>>
        /\ out = <<"[!] Error: Zenity not found. Closing.">>
        /\ stdinRest = stdinData
        /\ childStdin = "none" /\ ~awaited

C3_Witness ==
    /\ cmd = "connect" /\ ~zenityInstalled /\ pc = "done"
    /\ origCmd.set /\ stdinData # <<>>
    /\ out = <<"[!] Error: Zenity not found. Closing.">>

IsPrefix(a, b) == Len(a) <= Len(b) /\ a = SubSeq(b, 1, Len(a))

ApprovedPiped ==
    cmd = "connect" /\ ShellCalls # <<>> /\ ~stdinTty

\* C8 as claimed: on the approved path with N bytes of piped input, the
\* handler ends with exactly those N bytes delivered to the child, the
\* child's input closed and the child awaited.
C8_AllBytesThenCloseThenWait ==
    (ApprovedPiped /\ Terminal) =>
        (delivered = stdinData /\ childStdin = "closed" /\ awaited)

\* C8 as the code has it: what reached the child is always a prefix of the
\* input; the child is awaited only with its input closed and all N bytes
\* delivered; a run in which no write to the child raised ends that way,
\* and a run in which one raised ends with the child killed, not awaited.
C8_PrefixCloseBeforeWait ==
    ApprovedPiped =>
        /\ IsPrefix(delivered, stdinData)
        /\ (pc = "wait" \/ awaited) =>
               (childStdin = "closed" /\ delivered = stdinData)
        /\ Terminal => (awaited # killed)
        /\ killed => ~awaited

\* three bytes went through in two rounds, then close, then wait
C8_Witness ==
    /\ ApprovedPiped /\ pc = "done" /\ awaited
    /\ Len(stdinData) = MaxInput
    /\ delivered = stdinData /\ childStdin = "closed"

====
